---- MODULE Spec2Model ----
(***************************************************************************)
(* A model of CSIKit's IWL5300 reader, CSIKit/reader/readers/read_bfee.py: *)
(* the record scan (IWLBeamformReader.read_file), the CSI matrix decoder   *)
(* (read_bfee), the realtime entry point (read_bf_entry) and the scaling   *)
(* (scale_csi_entry).                                                      *)
(*                                                                         *)
(* Bytes are naturals in 0..255 and a buffer is a sequence of bytes; the   *)
(* code's 0-based indices are kept and translated by At and Slice.  The    *)
(* numpy semantics are those of the release the file is written for        *)
(* (np.complex and np.float exist, np.int8(x) of an out-of-range Python    *)
(* int wraps, a float division by zero gives inf or nan with a warning).   *)
(***************************************************************************)
EXTENDS Integers, Sequences, FiniteSets, TLC

VARIABLES
    \* ---- read_file ----
    length,             \* len(data)
    cursor,             \* cursor
    size,               \* size of the record read last
    code,               \* code of the record read last
    initial_timestamp,  \* initial_timestamp, in ticks of 10e-7 s
    expected_frames,    \* ret_data.expected_frames
    frames,             \* ret_data.frames, as pushed
    timestamps,         \* ret_data.timestamps
    pc,                 \* "idle" | "scan" | "done" | "raised"
    hist,               \* history of the records the loop has read
    \* ---- read_bfee / read_bf_entry called on their own ----
    scaled,             \* the scaled argument
    orig,               \* the values a payload was packed from
    hdr,                \* header handed to read_bfee
    payload,            \* payload handed to read_bfee
    packet,             \* packet handed to read_bf_entry
    out,                \* what the call returned, or that it raised
    dpc                 \* "idle" | "ready" | "decoded" | "entry"

scanVars == <<length, cursor, size, code, initial_timestamp, expected_frames,
              frames, timestamps, pc, hist>>
decVars == <<orig, hdr, payload, packet, out, dpc>>
vars == <<scanVars, scaled, decVars>>

-----------------------------------------------------------------------------
(* Program constants *)

VALID_BEAMFORMING_MEASUREMENT == 187
\* struct.calcsize("<LHHBBBBBbBBHH")
HEADER_SIZE == 20
\* the loop guard of read_file: while (length - cursor) > 100
SCAN_GUARD == 100
\* range(30) in read_bfee
N_SUBCARRIERS == 30
\* data[4:25] and data[25:] in read_bf_entry
ENTRY_HEADER_FROM == 4
ENTRY_HEADER_TO == 25

-----------------------------------------------------------------------------
(* Bytes, slices and bit operations *)

Min(a, b) == IF a < b THEN a ELSE b
Max(a, b) == IF a > b THEN a ELSE b

Pow2(n) == 2 ^ n

\* data[i], i 0-based and in range
At(data, i) == data[i + 1]

\* data[a:b] for 0 <= a: Python clips the slice to the buffer
Slice(data, a, b) ==
    LET hi == Min(b, Len(data))
    IN  IF a >= hi THEN <<>> ELSE SubSeq(data, a + 1, hi)

\* x >> n and x << n on non-negative Python ints
Shr(x, n) == x \div Pow2(n)
Shl(x, n) == x * Pow2(n)

\* a | b on non-negative Python ints
RECURSIVE BitOr(_, _)
BitOr(a, b) ==
    IF a = 0 THEN b
    ELSE IF b = 0 THEN a
    ELSE (IF a % 2 = 1 \/ b % 2 = 1 THEN 1 ELSE 0) + 2 * BitOr(a \div 2, b \div 2)

\* Int8 without the sign: the low 8 bits kept unsigned (a faulty variant).
Int8Unsigned(x) == x % 256

\* np.int8(x): the low 8 bits of x as two's complement
Int8(x) == IF x % 256 >= 128 THEN (x % 256) - 256 ELSE x % 256

\* struct "<H" and "<L" (little-endian)
Le16(b, i) == At(b, i) + 256 * At(b, i + 1)
Le32(b, i) == Le16(b, i) + 65536 * Le16(b, i + 2)

\* HEADER_STRUCT = struct.Struct("<LHHBBBBBbBBHH").unpack: the 13 fields of a
\* 20-byte block; any other length raises struct.error.
HEADER_STRUCT(b) ==
    IF Len(b) # HEADER_SIZE THEN [ok |-> FALSE]
    ELSE [ok |-> TRUE,
          timestamp_low |-> Le32(b, 0),
          bfee_count |-> Le16(b, 4),
          reserved |-> Le16(b, 6),
          n_rx |-> At(b, 8),
          n_tx |-> At(b, 9),
          rssi_a |-> At(b, 10),
          rssi_b |-> At(b, 11),
          rssi_c |-> At(b, 12),
          noise |-> Int8(At(b, 13)),
          agc |-> At(b, 14),
          antenna_sel |-> At(b, 15),
          payload_length |-> Le16(b, 16),
          rate |-> Le16(b, 18)]

\* perm = [0, 1, 2]; if sum(perm) == n_rx: the three 2-bit fields of antenna_sel
Perm(n_rx, antenna_sel) ==
    IF 0 + 1 + 2 = n_rx
    THEN <<antenna_sel % 4, (antenna_sel \div 4) % 4, (antenna_sel \div 16) % 4>>
    ELSE <<0, 1, 2>>

-----------------------------------------------------------------------------
(* read_bfee: the CSI matrix decoder *)

\* the index set of np.empty((30, n_rx, n_tx))
Entries(n_rx, n_tx) == (0 .. N_SUBCARRIERS - 1) \X (0 .. n_rx - 1) \X (0 .. n_tx - 1)

\* LengthMatches as a lower bound only: a payload longer than declared is
\* accepted (a faulty variant).
LengthAtLeast(expected_length, actual_length) == expected_length <= actual_length

\* if expected_length != actual_length: return None
LengthMatches(expected_length, actual_length) == expected_length = actual_length

\* csi[i][perm[j]][k] = complex_no, and on IndexError csi[i][j][k] = complex_no:
\* perm has 3 elements and the matrix n_rx rows, so the first store fails when
\* j >= 3 or perm[j] >= n_rx.
Target(perm, n_rx, j) ==
    IF j < Len(perm) /\ perm[j + 1] < n_rx THEN perm[j + 1] ELSE j

\* index when the loops reach (i, j, k) without a break: index = 0, index += 3
\* once per subcarrier up to i, index += 16 once per sample before (i, j, k)
IndexAt(n_rx, n_tx, i, j, k) == 3 * (i + 1) + 16 * ((i * n_rx + j) * n_tx + k)

\* if (ind8+2 >= len(data)): break
Breaks(data, ind8) == ind8 + 2 >= Len(data)

\* Whether the loops store the sample (i, j, k). The break leaves the k loop
\* without advancing index, so every later test sees an index at least as
\* large and breaks too: a sample is stored exactly when the index it would
\* have without any break passes the guard (IndexAt grows along the loops).
Stored(data, n_rx, n_tx, i, j, k) == ~Breaks(data, IndexAt(n_rx, n_tx, i, j, k) \div 8)

\* real and imag of the sample at bit index: remainder = index % 8 (taken
\* after index += 3, unchanged by index += 16), ind8 = floor(index / 8)
Sample(data, index) ==
    LET remainder == index % 8
        ind8 == index \div 8
        real == BitOr(Shr(At(data, ind8), remainder),
                      Shl(At(data, 1 + ind8), 8 - remainder))
        imag == BitOr(Shr(At(data, 1 + ind8), remainder),
                      Shl(At(data, 2 + ind8), 8 - remainder))
    IN  <<Int8(real), Int8(imag)>>

\* the j whose store to row r of subcarrier i, column k, is the last one
Writers(data, perm, n_rx, n_tx, i, r, k) ==
    {j \in 0 .. n_rx - 1 : Target(perm, n_rx, j) = r /\ Stored(data, n_rx, n_tx, i, j, k)}

SetMax(S) == CHOOSE x \in S : \A y \in S : y <= x

\* csi = np.empty((30, n_rx, n_tx)) and the three loops: the positions stored
\* to (filled) and the matrix, where a position never stored to keeps uninit
\* and one stored to several times keeps the last store.
DecodeLoops(data, perm, n_rx, n_tx, uninit) ==
    LET W(e) == Writers(data, perm, n_rx, n_tx, e[1], e[2], e[3])
    IN  [filled |-> {e \in Entries(n_rx, n_tx) : W(e) # {}},
         csi |-> [e \in Entries(n_rx, n_tx) |->
                    IF W(e) = {} THEN uninit
                    ELSE Sample(data, IndexAt(n_rx, n_tx, e[1], SetMax(W(e)), e[3]))]]

-----------------------------------------------------------------------------
(* scale_csi_entry, on classes of floats: "zero", "pos" (finite and            *)
(* positive), "inf", "nan"; a dB value is "fin" or "-inf".                     *)

FDiv(a, b) ==
    IF a = "nan" \/ b = "nan" THEN "nan"
    ELSE IF a = "zero" THEN (IF b = "zero" THEN "nan" ELSE "zero")
    ELSE IF a = "inf" THEN (IF b = "inf" THEN "nan" ELSE "inf")
    ELSE (IF b = "zero" THEN "inf" ELSE IF b = "inf" THEN "zero" ELSE "pos")

FMul(a, b) ==
    IF a = "nan" \/ b = "nan" THEN "nan"
    ELSE IF a = "zero" THEN (IF b = "inf" THEN "nan" ELSE "zero")
    ELSE IF b = "zero" THEN (IF a = "inf" THEN "nan" ELSE "zero")
    ELSE IF a = "inf" \/ b = "inf" THEN "inf" ELSE "pos"

FAdd(a, b) ==
    IF a = "nan" \/ b = "nan" THEN "nan"
    ELSE IF a = "inf" \/ b = "inf" THEN "inf"
    ELSE IF a = "zero" /\ b = "zero" THEN "zero" ELSE "pos"

\* np.sqrt keeps the class of a non-negative float
FSqrt(a) == a

FClass(n) == IF n = 0 THEN "zero" ELSE "pos"

\* CSIKit.util.matlab.db(x, "pow") = 10 log10(x) and dbinv(x) = 10 ** (x / 10)
db(x) == IF x = "zero" THEN "-inf" ELSE "fin"
dbinv(x) == IF x = "-inf" THEN "zero" ELSE "pos"

\* get_total_rss: the rssi that are not 0 are summed as powers
get_total_rss(rssi_a, rssi_b, rssi_c, agc) ==
    LET m0 == "zero"
        m1 == IF rssi_a # 0 THEN FAdd(m0, dbinv("fin")) ELSE m0
        m2 == IF rssi_b # 0 THEN FAdd(m1, dbinv("fin")) ELSE m1
        m3 == IF rssi_c # 0 THEN FAdd(m2, dbinv("fin")) ELSE m2
    IN  db(m3)

\* np.real(np.sum(np.multiply(csi, np.conj(csi)))): a sum of squares, 0 only
\* when every entry is 0
CsiPower(csi) ==
    IF \A e \in DOMAIN csi : csi[e][1] * csi[e][1] + csi[e][2] * csi[e][2] = 0
    THEN "zero" ELSE "pos"

\* scale_csi_entry: ret = csi * np.sqrt(scale / total_noise_pwr), then the n_tx
\* correction by a positive constant. The result is the raw matrix and the
\* class of the factor every entry is multiplied by.
scale_csi_entry(csi, header) ==
    LET csi_pwr == CsiPower(csi)
        rssi_pwr_db == get_total_rss(header.rssi_a, header.rssi_b, header.rssi_c,
                                     header.agc)
        rssi_pwr == dbinv(rssi_pwr_db)
        scale == FDiv(rssi_pwr, FDiv(csi_pwr, "pos"))
        thermal_noise_pwr == dbinv("fin")
        quant_error_pwr == FMul(scale, FClass(header.n_rx * header.n_tx))
        total_noise_pwr == FAdd(thermal_noise_pwr, quant_error_pwr)
        ret == FSqrt(FDiv(scale, total_noise_pwr))
    IN  [csi |-> csi, factor |-> FMul(ret, "pos")]

\* read_bfee(header, data, perm, scaled): None on a length mismatch, else the
\* matrix. uninit is what np.empty left in the matrix; filled is the set of
\* positions the loop stored to.
read_bfee(header, data, perm, isScaled, uninit) ==
    IF ~LengthMatches(header.payload_length, Len(data)) THEN [kind |-> "none"]
    ELSE
        LET acc == DecodeLoops(data, perm, header.n_rx, header.n_tx, uninit)
        IN  IF isScaled
            THEN [kind |-> "scaled", csi |-> acc.csi, filled |-> acc.filled,
                  factor |-> scale_csi_entry(acc.csi, header).factor]
            ELSE [kind |-> "csi", csi |-> acc.csi, filled |-> acc.filled,
                  factor |-> "pos"]

\* read_bf_entry(data, scaled): struct.unpack raises unless data[4:25] has the 20
\* bytes of the format.
read_bf_entry(data, isScaled, uninit) ==
    LET csi_header == HEADER_STRUCT(Slice(data, ENTRY_HEADER_FROM, ENTRY_HEADER_TO))
        all_data == Slice(data, ENTRY_HEADER_TO, Len(data))
    IN  IF ~csi_header.ok
        THEN [kind |-> "raised", got |-> Len(Slice(data, ENTRY_HEADER_FROM, ENTRY_HEADER_TO))]
        ELSE read_bfee(csi_header, all_data,
                       Perm(csi_header.n_rx, csi_header.antenna_sel), isScaled, uninit)

-----------------------------------------------------------------------------
(* Inputs: the wire format written out, to have buffers to decode *)

\* the 20 bytes HEADER_STRUCT reads the fields h from
HeaderBytes(h) ==
    <<h.timestamp_low % 256, (h.timestamp_low \div 256) % 256,
      (h.timestamp_low \div 65536) % 256, (h.timestamp_low \div 16777216) % 256,
      h.bfee_count % 256, h.bfee_count \div 256,
      h.reserved % 256, h.reserved \div 256,
      h.n_rx, h.n_tx, h.rssi_a, h.rssi_b, h.rssi_c,
      h.noise % 256, h.agc, h.antenna_sel,
      h.payload_length % 256, h.payload_length \div 256,
      h.rate % 256, h.rate \div 256>>

Header(ts, n_rx, n_tx, antenna_sel, payload_length) ==
    [ok |-> TRUE, timestamp_low |-> ts, bfee_count |-> 1, reserved |-> 0,
     n_rx |-> n_rx, n_tx |-> n_tx, rssi_a |-> 33, rssi_b |-> 0, rssi_c |-> 35,
     noise |-> -127, agc |-> 30, antenna_sel |-> antenna_sel,
     payload_length |-> payload_length, rate |-> 257]

\* bit n of the byte x
Bit(x, n) == (x \div Pow2(n)) % 2

\* the bits one subcarrier takes: 3 skipped, then n_rx * n_tx samples of 8 + 8
BlockBits(n_rx, n_tx) == 16 * n_rx * n_tx + 3

\* ceil(30 * (16 * n_rx * n_tx + 3) / 8)
PackedLength(n_rx, n_tx) == (N_SUBCARRIERS * BlockBits(n_rx, n_tx) + 7) \div 8

\* bit p of the packed stream of the values v, LSB first: per subcarrier the 3
\* bits of skip, then for each rx and each tx 8 bits real and 8 bits imaginary
PackedBit(v, n_rx, n_tx, skip, p) ==
    LET i == p \div BlockBits(n_rx, n_tx)
        off == p % BlockBits(n_rx, n_tx)
        s == (off - 3) \div 16
        t == (off - 3) % 16
        e == <<i, s \div n_tx, s % n_tx>>
    IN  IF i >= N_SUBCARRIERS THEN 0
        ELSE IF off < 3 THEN Bit(skip, off)
        ELSE IF t < 8 THEN Bit(v[e][1] % 256, t)
        ELSE Bit(v[e][2] % 256, t - 8)

PackedByte(v, n_rx, n_tx, skip, n) ==
    LET b(q) == PackedBit(v, n_rx, n_tx, skip, 8 * n + q)
    IN  b(0) + 2 * b(1) + 4 * b(2) + 8 * b(3) + 16 * b(4) + 32 * b(5) + 64 * b(6)
        + 128 * b(7)

\* the first n bytes of the packed stream
Pack(v, n_rx, n_tx, skip, n) ==
    [q \in 1 .. n |-> PackedByte(v, n_rx, n_tx, skip, q - 1)]

\* signed 8-bit values that differ from entry to entry (stride # 0)
Wrap(x) == ((x + 128) % 256) - 128
Values(n_rx, n_tx, base, stride) ==
    [e \in Entries(n_rx, n_tx) |->
        LET s == (e[1] * n_rx + e[2]) * n_tx + e[3]
        IN  <<Wrap(base + stride * 2 * s), Wrap(base + stride * (2 * s + 1))>>]

AntennaCounts == 1 .. 3
Bases == {-128, -1, 0, 127}
Strides == {0, 37}
Skips == {0, 5}
\* identity, all rows to row 0, and 3-2-1 (a row index of 3 is out of range)
AntennaSels == {36, 0, 27}
\* what np.empty may leave in an entry
Uninit == {<<0, 0>>, <<77, -3>>}
\* payload lengths shorter than the packed length
ShortLengths == {0, 40}

-----------------------------------------------------------------------------
(* read_bfee and read_bf_entry called on one record *)

InitScanIdle ==
    /\ length = 0 /\ cursor = 0 /\ size = 0 /\ code = 0
    /\ initial_timestamp = 0 /\ expected_frames = 0
    /\ frames = <<>> /\ timestamps = <<>> /\ pc = "idle"
    /\ hist = [skipped |-> 0, dropped |-> 0, valid |-> <<>>]

InitDecode ==
    /\ InitScanIdle
    /\ scaled \in BOOLEAN
    /\ \E n_rx \in AntennaCounts, n_tx \in AntennaCounts, base \in Bases,
          stride \in Strides, skip \in Skips :
      \E n \in ShortLengths \cup {PackedLength(n_rx, n_tx)} :
        /\ orig = Values(n_rx, n_tx, base, stride)
        /\ payload = Pack(Values(n_rx, n_tx, base, stride), n_rx, n_tx, skip, n)
        /\ \E sel \in AntennaSels, more \in {0, 1} :
                hdr = Header(0, n_rx, n_tx, sel, n + more)
    /\ packet = <<>>
    /\ out = [kind |-> "pending"]
    /\ dpc = "ready"

\* IWLBeamformReader.read_bfee(hdr, payload, perm, scaled)
DecodeBfee ==
    /\ dpc = "ready"
    /\ \E uninit \in Uninit :
        out' = read_bfee(hdr, payload, Perm(hdr.n_rx, hdr.antenna_sel), scaled, uninit)
    /\ dpc' = "decoded"
    /\ UNCHANGED <<scanVars, scaled, orig, hdr, payload, packet>>

\* IWLBeamformReader.read_bf_entry(packet, scaled) on a packet that carries the
\* header from byte 4 on and, after it (or after one more byte), the payload
ReadBfEntry ==
    /\ dpc = "ready"
    /\ \E pad \in {<<>>, <<0>>}, uninit \in Uninit :
        LET data == <<0, 0, 0, 0>> \o HeaderBytes(hdr) \o pad \o payload
        IN  /\ packet' = data
            /\ out' = read_bf_entry(data, scaled, uninit)
    /\ dpc' = "entry"
    /\ UNCHANGED <<scanVars, scaled, orig, hdr, payload>>

NextDecode == DecodeBfee \/ ReadBfEntry

SpecDecode == InitDecode /\ [][NextDecode]_vars

-----------------------------------------------------------------------------
(* read_file: the scan of a buffer of `length` bytes. The buffer's bytes are  *)
(* drawn where the loop reads them: the size and code of a record when the    *)
(* cursor reaches it, the record's content when the code makes the loop read  *)
(* it.                                                                        *)

MaxLength == 126

Lengths == {0, SCAN_GUARD, SCAN_GUARD + 1, MaxLength - 2, MaxLength}
\* declared sizes: empty, no content, a cut header, a header alone, a header
\* with the payload of a 1x1 matrix, more than any buffer here holds
Sizes == {0, 1, 5, HEADER_SIZE + 1, HEADER_SIZE + 1 + PackedLength(1, 1), 200}
Codes == {0, VALID_BEAMFORMING_MEASUREMENT}
Timestamps == {0, 5, 9}
Fills == {0, 165}

\* len(data[a:b]) for 0 <= a <= n = len(data)
SliceLen(a, b, n) == Max(0, Min(b, n) - a)

\* NextCursor without cursor += 3 (a faulty variant).
NextCursorNoPrefix(c, sz) == c + (sz - 1)

\* cursor += 3, then cursor += size-1
NextCursor(c, sz) == (c + 3) + (sz - 1)

\* CountAttempt inside the branch of the valid code only (a faulty variant).
CountValidOnly(n, cd) == IF cd = VALID_BEAMFORMING_MEASUREMENT THEN n + 1 ELSE n

\* ret_data.expected_frames += 1, whatever the code
CountAttempt(n, cd) == n + 1

InitDecodeIdle ==
    /\ orig = <<>> /\ hdr = [ok |-> FALSE] /\ payload = <<>> /\ packet = <<>>
    /\ out = [kind |-> "pending"] /\ dpc = "idle"

Init ==
    /\ length \in Lengths
    /\ cursor = 0 /\ size = 0 /\ code = 0
    /\ initial_timestamp = 0 /\ expected_frames = 0
    /\ frames = <<>> /\ timestamps = <<>>
    /\ pc = "scan"
    /\ hist = [skipped |-> 0, dropped |-> 0, valid |-> <<>>]
    /\ scaled = FALSE
    /\ InitDecodeIdle

\* the branch of a code other than 187: the print, the counter, the cursor
SkipRecord(sz, cd) ==
    /\ cd # VALID_BEAMFORMING_MEASUREMENT
    /\ size' = sz /\ code' = cd
    /\ expected_frames' = CountAttempt(expected_frames, cd)
    /\ cursor' = NextCursor(cursor, sz)
    /\ hist' = [hist EXCEPT !.skipped = @ + 1]
    /\ UNCHANGED <<length, initial_timestamp, frames, timestamps, pc>>

\* the branch of code 187 on the content all_block = data[cursor:cursor+size-1]
ValidRecord(sz, cd, all_block, uninit) ==
    LET header_block == HEADER_STRUCT(Slice(all_block, 0, HEADER_SIZE))
        data_block == Slice(all_block, HEADER_SIZE, Len(all_block))
    IN  /\ cd = VALID_BEAMFORMING_MEASUREMENT
        /\ size' = sz /\ code' = cd
        /\ IF ~header_block.ok
           THEN \* struct.error leaves read_file
                /\ pc' = "raised"
                /\ cursor' = cursor + 3
                /\ UNCHANGED <<length, initial_timestamp, expected_frames, frames,
                               timestamps, hist>>
           ELSE LET csi_matrix ==
                        read_bfee(header_block, data_block,
                                  Perm(header_block.n_rx, header_block.antenna_sel),
                                  scaled, uninit)
                    \* header_block[0]*10e-7, kept in ticks: the product is 0.0
                    \* exactly when the tick count is 0
                    timestamp_low == header_block.timestamp_low
                    initial == IF initial_timestamp = 0 THEN timestamp_low
                               ELSE initial_timestamp
                IN  /\ IF csi_matrix.kind # "none"
                       THEN /\ frames' = Append(frames,
                                   [header |-> header_block,
                                    csi |-> csi_matrix.csi,
                                    factor |-> csi_matrix.factor])
                            /\ initial_timestamp' = initial
                            /\ timestamps' = Append(timestamps, timestamp_low - initial)
                            /\ hist' = [hist EXCEPT !.valid = Append(@,
                                   [header |-> header_block, actual |-> Len(data_block),
                                    declared |-> sz - 1, at |-> cursor + 3])]
                       ELSE /\ UNCHANGED <<frames, initial_timestamp, timestamps>>
                            /\ hist' = [hist EXCEPT !.dropped = @ + 1, !.valid = Append(@,
                                   [header |-> header_block, actual |-> Len(data_block),
                                    declared |-> sz - 1, at |-> cursor + 3])]
                    /\ expected_frames' = CountAttempt(expected_frames, cd)
                    /\ cursor' = NextCursor(cursor, sz)
                    /\ UNCHANGED <<length, pc>>

\* One iteration of while (length - cursor) > 100. A record of size 0 ends one
\* byte before its own code byte, which is then the high byte of the next size.
Step ==
    /\ pc = "scan"
    /\ length - cursor > SCAN_GUARD
    /\ \E sz \in Sizes, cd \in Codes :
        \* SIZE_STRUCT is big-endian: the high byte comes first
        /\ (expected_frames > 0 /\ size = 0) => sz \div 256 = code
        /\ \/ SkipRecord(sz, cd)
           \/ \E ts \in Timestamps, fill \in Fills, uninit \in Uninit :
                LET n == SliceLen(cursor + 3, cursor + 3 + sz - 1, length)
                IN  \E declared \in {0, Max(0, n - HEADER_SIZE), Max(0, n - HEADER_SIZE) + 1} :
                LET h == [Header(ts, 1, 1, 36, declared)
                            EXCEPT !.bfee_count = expected_frames]
                    content == HeaderBytes(h) \o [q \in 1 .. PackedLength(1, 1) + 70 |-> fill]
                IN  ValidRecord(sz, cd, Slice(content, 0, n), uninit)
    /\ UNCHANGED <<scaled, decVars>>

\* the loop guard fails: return ret_data
Finish ==
    /\ pc = "scan"
    /\ ~(length - cursor > SCAN_GUARD)
    /\ pc' = "done"
    /\ UNCHANGED <<length, cursor, size, code, initial_timestamp, expected_frames,
                   frames, timestamps, hist, scaled, decVars>>

Next == Step \/ Finish

Spec == Init /\ [][Next]_vars

\* the loop runs on: nothing stops read_file between two iterations
FairSpec == Spec /\ WF_vars(Next)

-----------------------------------------------------------------------------
(* The scan's claims *)

Matching(r) == r.header.payload_length = r.actual
HeadersOf(seq) == [n \in 1 .. Len(seq) |-> seq[n].header]

\* C1: the frames pushed are exactly the code-187 records read so far whose
\* payload_length equals their payload's byte count, one frame and one
\* timestamp per such record, in the order of the byte stream.
C1_FramesAreMatchingRecords ==
    /\ HeadersOf(frames) = HeadersOf(SelectSeq(hist.valid, Matching))
    /\ Len(timestamps) = Len(frames)
    /\ \A n \in 1 .. Len(hist.valid) - 1 : hist.valid[n].at < hist.valid[n + 1].at

C1_Witness ==
    /\ pc = "done"
    /\ Len(frames) >= 1
    /\ hist.dropped >= 1
    /\ ~Matching(hist.valid[1])

\* C2: a code-187 record whose content is shorter than the 20 header bytes
\* (size - 1 < 20) does not abort the scan.
C2_ShortHeaderSkipped ==
    (code = VALID_BEAMFORMING_MEASUREMENT /\ size - 1 < HEADER_SIZE) => pc # "raised"

\* C3: a record whose declared size reaches past the end of the buffer yields
\* no frame.
C3_TruncatedYieldsNoFrame ==
    \A n \in 1 .. Len(hist.valid) :
        hist.valid[n].at + hist.valid[n].declared > length
            => \A m \in 1 .. Len(frames) : frames[m].header # hist.valid[n].header

\* C4: every relative timestamp is the frame's timestamp_low minus the
\* timestamp_low of the first frame pushed.
C4_RelativeToFirstFrame ==
    \A n \in 1 .. Len(timestamps) :
        timestamps[n] = frames[n].header.timestamp_low - frames[1].header.timestamp_low

\* C8: the counter of attempted records equals the number of records that
\* produced a frame, were dropped for a length mismatch or were skipped for
\* their code, and frames plus drops are the records of code 187 among them.
C8_CounterCountsEveryRecord ==
    /\ expected_frames = Len(frames) + hist.dropped + hist.skipped
    /\ Len(frames) + hist.dropped = Len(hist.valid)

C8_Witness ==
    /\ pc = "done"
    /\ Len(frames) >= 1 /\ hist.dropped >= 1 /\ hist.skipped >= 1

\* C9: every iteration of the loop moves the cursor forward and happens only
\* while length - cursor > 100, and the scan ends, for every size read
\* (0 and 1 among them).
C9_ScanTerminates ==
    /\ [][pc' # "done" => (cursor' > cursor /\ length - cursor > SCAN_GUARD)]_vars
    /\ <>(pc # "scan")

C9_Witness ==
    /\ pc = "done"
    /\ size = 0
    /\ hist.skipped >= 3
    /\ length - cursor <= SCAN_GUARD

-----------------------------------------------------------------------------
(* The decoder's claims *)

Decodes == out.kind \in {"csi", "scaled"}

\* C5: a payload packed LSB-first from signed 8-bit values, of the packed
\* length and declared so, decoded unscaled with the identity permutation,
\* gives back the value packed at every [subcarrier][rx][tx].
C5_RoundTrip ==
    (/\ dpc = "decoded"
     /\ ~scaled
     /\ Len(payload) = PackedLength(hdr.n_rx, hdr.n_tx)
     /\ hdr.payload_length = Len(payload)
     /\ Perm(hdr.n_rx, hdr.antenna_sel) = <<0, 1, 2>>)
        => /\ out.kind = "csi"
           /\ \A e \in DOMAIN orig : out.csi[e] = orig[e]

\* a 3x3 matrix with a negative value in subcarrier 7, where the remainder is 0
C5_Witness ==
    /\ dpc = "decoded"
    /\ ~scaled
    /\ hdr.n_rx = 3 /\ hdr.n_tx = 3
    /\ Perm(hdr.n_rx, hdr.antenna_sel) = <<0, 1, 2>>
    /\ out.kind = "csi"
    /\ IndexAt(3, 3, 7, 2, 1) % 8 = 0
    /\ orig[<<7, 2, 1>>][1] < 0
    /\ orig[<<7, 2, 1>>] # orig[<<8, 0, 0>>]
    /\ out.csi = orig

\* C6: when the payload passes the length check but is shorter than the packed
\* length, the entries the loops do not store to are 0+0j.
C6_UnfilledAreZero ==
    (/\ dpc = "decoded"
     /\ ~scaled
     /\ out.kind = "csi"
     /\ Len(payload) < PackedLength(hdr.n_rx, hdr.n_tx))
        => \A e \in (DOMAIN out.csi) \ out.filled : out.csi[e] = <<0, 0>>

\* C7: with a raw matrix of zero power, scaling returns no matrix of NaN or
\* Inf entries.
C7_ZeroPowerNoNaN ==
    (/\ dpc = "decoded"
     /\ scaled
     /\ Decodes
     /\ CsiPower(out.csi) = "zero")
        => ~(out.kind = "scaled" /\ out.factor \in {"nan", "inf"})

\* C10: read_bf_entry on a packet of at least 25 bytes whose bytes after the
\* header are as many as payload_length says returns a matrix.
C10_EntryDecodes ==
    (/\ dpc = "entry"
     /\ Len(packet) >= ENTRY_HEADER_TO
     /\ hdr.payload_length = Len(packet) - ENTRY_HEADER_TO)
        => Decodes

====
